---- MODULE Spec2Model ----
(***************************************************************************)
(* Model of the chunking engine of the ingestion service                   *)
(* (services/ingestion-service/services/chunking_service.py).              *)
(*                                                                         *)
(* A Python str is a sequence of one-character strings.  Characters that   *)
(* TLA+ cannot write literally are named: "\\x00" is NUL, "\\x01" is the   *)
(* control character U+0001, "\\ud800" a lone surrogate, and so on.        *)
(***************************************************************************)
EXTENDS Integers, Sequences, FiniteSets, TLC

VARIABLES pc, args, config, splitter, call, chunks, outcome, repaired, sanIn, san1, san2, ret,
          now, jobs, proc, resp, cancelled

\* the ingestion_jobs table, the background runs, the last answer of the cancel
\* route, and the jobs for which a cancel request has succeeded
jobVars == <<jobs, proc, resp, cancelled>>

vars == <<pc, args, config, splitter, call, chunks, outcome, repaired, sanIn, san1, san2, ret,
          now, jobVars>>

(***************************************************************************)
(* Characters and the str methods the service uses                         *)
(***************************************************************************)

\* '\x00', removed by handle_edge_cases first
NUL == "\\x00"

\* the class [\x01-\x08\x0B\x0C\x0E-\x1F\x7F] of handle_edge_cases
ControlChars ==
    {"\\x01", "\\x02", "\\x03", "\\x04", "\\x05", "\\x06", "\\x07", "\\x08",
     "\\x0b", "\\x0c", "\\x0e", "\\x0f", "\\x10", "\\x11", "\\x12", "\\x13",
     "\\x14", "\\x15", "\\x16", "\\x17", "\\x18", "\\x19", "\\x1a", "\\x1b",
     "\\x1c", "\\x1d", "\\x1e", "\\x1f", "\\x7f"}

\* code points that str.encode('utf-8') refuses (lone surrogates)
Surrogates == {"\\ud800", "\\udfff"}

\* what str.strip(), str.split() and the regex class \s treat as whitespace
WhitespaceChars ==
    {" ", "\t", "\n", "\r", "\\x0b", "\\x0c", "\\x1c", "\\x1d", "\\x1e", "\\x1f",
     "\\x85", "\\xa0", "\\u2028", "\\u3000"}

IsSpace(c) == c \in WhitespaceChars

\* marks a position that a rewriting step deletes; no character is the empty string
DROP == ""

Kept(tagged) == SelectSeq(tagged, LAMBDA c : c # DROP)

\* str.strip()
Strip(s) ==
    IF \A i \in 1..Len(s) : IsSpace(s[i])
    THEN <<>>
    ELSE LET first == CHOOSE i \in 1..Len(s) :
                          ~IsSpace(s[i]) /\ \A j \in 1..(i - 1) : IsSpace(s[j])
             last  == CHOOSE i \in 1..Len(s) :
                          ~IsSpace(s[i]) /\ \A j \in (i + 1)..Len(s) : IsSpace(s[j])
         IN  SubSeq(s, first, last)

\* s[i:].startswith(sub)
MatchAt(s, i, sub) ==
    /\ i + Len(sub) - 1 <= Len(s)
    /\ \A k \in 1..Len(sub) : s[i + k - 1] = sub[k]

\* sub in s
Contains(s, sub) == \E i \in 1..(Len(s) - Len(sub) + 1) : MatchAt(s, i, sub)

\* s.split(sub) for a non-empty sub, which is also re.split(re.escape(sub), s)
RECURSIVE SplitOn(_, _)
SplitOn(s, sub) ==
    IF ~Contains(s, sub)
    THEN <<s>>
    ELSE LET i == CHOOSE i \in 1..Len(s) :
                      MatchAt(s, i, sub) /\ \A j \in 1..(i - 1) : ~MatchAt(s, j, sub)
         IN  <<SubSeq(s, 1, i - 1)>> \o SplitOn(SubSeq(s, i + Len(sub), Len(s)), sub)

\* s.count(sub) for a non-empty sub
Count(s, sub) == Len(SplitOn(s, sub)) - 1

\* sep.join(parts)
RECURSIVE Join(_, _)
Join(parts, sep) ==
    IF parts = <<>> THEN <<>>
    ELSE IF Len(parts) = 1 THEN parts[1]
    ELSE parts[1] \o sep \o Join(Tail(parts), sep)

(***************************************************************************)
(* handle_edge_cases: the sanitizer                                        *)
(***************************************************************************)

\* a warning message; a and b are the numbers formatted into it (0 when none)
Warning(msg, a, b) == [msg |-> msg, a |-> a, b |-> b]

\* re.search(r'\s{10,}', ...) looks for a whitespace run of this length
ExcessiveRun == 10

\* re.sub(r'\s{3,}', ' ', ...) rewrites whitespace runs of at least this length
CollapseRun == 3

\* a line is "very long" above this many characters
LongLine == 1000

\* re.search(r'\s{10,}', s)
HasExcessiveWhitespace(s) ==
    \E i \in 1..(Len(s) - ExcessiveRun + 1) :
        \A j \in i..(i + ExcessiveRun - 1) : IsSpace(s[j])

\* re.sub(r'\s{3,}', ' ', s): every maximal whitespace run of 3 or more becomes ' '
CollapseWhitespace(s) ==
    LET n == Len(s)
        sp(i) == i >= 1 /\ i <= n /\ IsSpace(s[i])
        \* i lies in a window of CollapseRun consecutive whitespace characters
        inRun(i) ==
            \E k \in (i - CollapseRun + 1)..i :
                \A j \in k..(k + CollapseRun - 1) : sp(j)
        tagged == [i \in 1..n |->
                      IF inRun(i) THEN (IF sp(i - 1) THEN DROP ELSE " ") ELSE s[i]]
    IN  Kept(tagged)

\* len([line for line in s.split('\n') if len(line) > 1000])
CountLongLines(s) ==
    LET n == Len(s)
        starts == {0} \cup {i \in 1..n : s[i] = "\n"}
    IN  Cardinality({p \in starts :
            /\ p + LongLine + 1 <= n
            /\ \A k \in (p + 1)..(p + LongLine + 1) : s[k] # "\n"})

\* NormalizeLineEndings with the second replace forgotten: a bare '\r' stays
NormalizeLineEndings_CrLfOnly(s) ==
    Kept([i \in 1..Len(s) |->
             IF s[i] = "\r" /\ i < Len(s) /\ s[i + 1] = "\n" THEN DROP ELSE s[i]])

\* s.replace('\r\n', '\n').replace('\r', '\n')
NormalizeLineEndings(s) ==
    LET tagged == [i \in 1..Len(s) |->
                      IF s[i] = "\r" THEN "\n"
                      ELSE IF s[i] = "\n" /\ i > 1 /\ s[i - 1] = "\r" THEN DROP
                      ELSE s[i]]
    IN  Kept(tagged)

\* the length comparison final_length < original_length * 0.9
LostTooMuch(final, original) == 10 * final < 9 * original

\* RemoveNullBytes with the replace forgotten
RemoveNullBytes_Kept(s) == s

\* cleaned_content.replace('\x00', '')
RemoveNullBytes(s) == SelectSeq(s, LAMBDA c : c # NUL)

\* RemoveControlChars with \x0B and \x0C left out of the class
RemoveControlChars_NoVtFf(s) ==
    SelectSeq(s, LAMBDA c : c \notin (ControlChars \ {"\\x0b", "\\x0c"}))

\* re.sub(r'[\x01-\x08\x0B\x0C\x0E-\x1F\x7F]', '', cleaned_content)
RemoveControlChars(s) == SelectSeq(s, LAMBDA c : c \notin ControlChars)

HandleEdgeCases(raw) ==
    IF raw = <<>>
    THEN [cleaned |-> <<>>, warnings |-> <<Warning("Empty content provided", 0, 0)>>]
    ELSE
    LET c1 == RemoveNullBytes(raw)
        w1 == IF Contains(raw, <<NUL>>)
              THEN <<Warning("Removed null bytes from content", 0, 0)>> ELSE <<>>
        nctl == Len(SelectSeq(c1, LAMBDA c : c \in ControlChars))
        c2 == IF nctl > 0 THEN RemoveControlChars(c1) ELSE c1
        w2 == IF nctl > 0
              THEN <<Warning("Removed control characters", nctl, 0)>> ELSE <<>>
        c3 == IF HasExcessiveWhitespace(c2) THEN CollapseWhitespace(c2) ELSE c2
        w3 == IF HasExcessiveWhitespace(c2)
              THEN <<Warning("Normalized excessive whitespace", 0, 0)>> ELSE <<>>
        nlong == CountLongLines(c3)
        w4 == IF nlong > 0
              THEN <<Warning("Found very long lines (>1000 chars)", nlong, 0)>> ELSE <<>>
        c5 == IF Contains(c3, <<"\r">>) THEN NormalizeLineEndings(c3) ELSE c3
        w5 == IF Contains(c3, <<"\r">>)
              THEN <<Warning("Normalized line endings", 0, 0)>> ELSE <<>>
        bad == \E i \in 1..Len(c5) : c5[i] \in Surrogates
        c6 == IF bad THEN SelectSeq(c5, LAMBDA c : c \notin Surrogates) ELSE c5
        w6 == IF bad THEN <<Warning("Fixed Unicode encoding issues", 0, 0)>> ELSE <<>>
        w7 == IF LostTooMuch(Len(c6), Len(raw))
              THEN <<Warning("Significant content loss during cleaning", Len(raw), Len(c6))>>
              ELSE <<>>
        ws == w1 \o w2 \o w3 \o w4 \o w5 \o w6 \o w7
    IN  IF Strip(c6) = <<>>
        THEN [cleaned |-> <<>>,
              warnings |-> ws \o <<Warning("Content became empty after cleaning", 0, 0)>>]
        ELSE [cleaned |-> Strip(c6), warnings |-> ws]

(***************************************************************************)
(* ChunkingConfig and the separator policy                                 *)
(***************************************************************************)

\* the default of ChunkingConfig.separators
DefaultSeparators ==
    << <<"\n", "\n", "\n">>, <<"\n", "\n">>,
       <<".", " ">>, <<"!", " ">>, <<"?", " ">>,
       <<";", " ">>, <<":", " ">>, <<",", " ">>,
       <<"\n">>, <<" ">>, <<>> >>

\* ChunkingConfig(**a): a field the caller leaves out takes its default.  Of the
\* arguments only separators is modelled as optional (a.sepGiven); the model
\* has no validator to run, as the class declares none.
ChunkingConfig(a) ==
    [chunk_size |-> a.chunk_size,
     chunk_overlap |-> a.chunk_overlap,
     separators |-> IF a.sepGiven THEN a.separators ELSE DefaultSeparators,
     min_chunk_size |-> a.min_chunk_size,
     max_chunk_size |-> a.max_chunk_size,
     preserve_sentence_boundaries |-> a.preserve_sentence_boundaries,
     preserve_paragraph_boundaries |-> a.preserve_paragraph_boundaries]

ParagraphSeparators == << <<"\n", "\n", "\n">>, <<"\n", "\n">> >>

SentenceSeparators ==
    << <<".", " ">>, <<"!", " ">>, <<"?", " ">>,
       <<".", "\n">>, <<"!", "\n">>, <<"?", "\n">> >>

\* "\\u2013" is the en dash, "\\u2014" the em dash
ClauseSeparators ==
    << <<";", " ">>, <<":", " ">>, <<",", " ">>,
       <<" ", "-", " ">>, <<" ", "\\u2013", " ">>, <<" ", "\\u2014", " ">> >>

LineSeparators == << <<"\n">> >>

WordSeparators == << <<" ">>, <<>> >>

\* DerivedSeparators with the tab added to the word boundaries
DerivedSeparators_WithTab(cfg) ==
    (IF cfg.preserve_paragraph_boundaries THEN ParagraphSeparators ELSE <<>>)
    \o (IF cfg.preserve_sentence_boundaries THEN SentenceSeparators ELSE <<>>)
    \o ClauseSeparators \o LineSeparators \o << <<"\t">> >> \o WordSeparators

\* the list built from the flags
DerivedSeparators(cfg) ==
    (IF cfg.preserve_paragraph_boundaries THEN ParagraphSeparators ELSE <<>>)
    \o (IF cfg.preserve_sentence_boundaries THEN SentenceSeparators ELSE <<>>)
    \o ClauseSeparators \o LineSeparators \o WordSeparators

\* GetSemanticSeparators with the configured list ignored
GetSemanticSeparators_FlagsOnly(cfg) == DerivedSeparators(cfg)

GetSemanticSeparators(cfg) ==
    IF cfg.separators # <<>> THEN cfg.separators ELSE DerivedSeparators(cfg)

(***************************************************************************)
(* RecursiveCharacterTextSplitter (langchain_text_splitters), as the       *)
(* service configures it: length_function=len, is_separator_regex=False,   *)
(* keep_separator=False, strip_whitespace left at its default True         *)
(***************************************************************************)

\* the constructor refuses chunk_overlap > chunk_size with a ValueError
SplitterRejects(cfg) == cfg.chunk_overlap > cfg.chunk_size

SetupSplitter(cfg) ==
    [chunk_size |-> cfg.chunk_size,
     chunk_overlap |-> cfg.chunk_overlap,
     separators |-> GetSemanticSeparators(cfg)]

\* SplitTextWithRegex that does not cut the text into characters for ""
SplitTextWithRegex_NoCharSplit(text, sep) ==
    IF sep = <<>>
    THEN <<text>>
    ELSE SelectSeq(SplitOn(text, sep), LAMBDA p : p # <<>>)

\* _split_text_with_regex without keep_separator: the non-empty pieces
SplitTextWithRegex(text, sep) ==
    IF sep = <<>>
    THEN [i \in 1..Len(text) |-> <<text[i]>>]
    ELSE SelectSeq(SplitOn(text, sep), LAMBDA p : p # <<>>)

\* _join_docs: the joined and stripped text; <<>> stands for None
JoinDocs(docs, sep) == Strip(Join(docs, sep))

\* the while loop of _merge_splits that drops leading pieces of current_doc
RECURSIVE PopDocs(_, _, _, _, _, _)
PopDocs(cur, total, dlen, seplen, cs, co) ==
    IF \/ total > co
       \/ (total + dlen + (IF Len(cur) > 0 THEN seplen ELSE 0) > cs /\ total > 0)
    THEN PopDocs(Tail(cur),
                 total - (Len(Head(cur)) + (IF Len(cur) > 1 THEN seplen ELSE 0)),
                 dlen, seplen, cs, co)
    ELSE [cur |-> cur, total |-> total]

\* the for loop of _merge_splits from piece k on
RECURSIVE MergeFrom(_, _, _, _, _, _, _, _)
MergeFrom(splits, k, docs, cur, total, sep, cs, co) ==
    IF k > Len(splits)
    THEN IF JoinDocs(cur, sep) # <<>> THEN Append(docs, JoinDocs(cur, sep)) ELSE docs
    ELSE
    LET d == splits[k]
        seplen == Len(sep)
        over == total + Len(d) + (IF Len(cur) > 0 THEN seplen ELSE 0) > cs
        flush == over /\ Len(cur) > 0
        docs1 == IF flush /\ JoinDocs(cur, sep) # <<>>
                 THEN Append(docs, JoinDocs(cur, sep)) ELSE docs
        st == IF flush THEN PopDocs(cur, total, Len(d), seplen, cs, co)
              ELSE [cur |-> cur, total |-> total]
        cur2 == Append(st.cur, d)
        total2 == st.total + Len(d) + (IF Len(cur2) > 1 THEN seplen ELSE 0)
    IN  MergeFrom(splits, k + 1, docs1, cur2, total2, sep, cs, co)

MergeSplits(splits, sep, cs, co) == MergeFrom(splits, 1, <<>>, <<>>, 0, sep, cs, co)

RECURSIVE SplitTextRec(_, _, _, _)
RECURSIVE WalkSplits(_, _, _, _, _, _, _, _)

\* the loop of _split_text over the pieces, from piece k on
WalkSplits(splits, k, good, final, sep, newseps, cs, co) ==
    LET merged == IF good # <<>> THEN final \o MergeSplits(good, sep, cs, co) ELSE final
    IN  IF k > Len(splits) THEN merged
        ELSE IF Len(splits[k]) < cs
        THEN WalkSplits(splits, k + 1, Append(good, splits[k]), final, sep, newseps, cs, co)
        ELSE WalkSplits(splits, k + 1, <<>>,
                        IF newseps = <<>>
                        THEN Append(merged, splits[k])
                        ELSE merged \o SplitTextRec(splits[k], newseps, cs, co),
                        sep, newseps, cs, co)

\* the first loop of _split_text: the first separator of the list that is "" or
\* occurs in the text, with the separators after it; the last one, with nothing
\* after it, when there is none
PickSeparator(text, seps) ==
    LET found == {i \in 1..Len(seps) : seps[i] = <<>> \/ Contains(text, seps[i])}
        i0 == CHOOSE i \in found : \A j \in found : i <= j
    IN  [separator |-> IF found # {} THEN seps[i0] ELSE seps[Len(seps)],
         new_separators |-> IF found # {} /\ seps[i0] # <<>>
                            THEN SubSeq(seps, i0 + 1, Len(seps)) ELSE <<>>]

\* _split_text(text, separators)
SplitTextRec(text, seps, cs, co) ==
    LET pick == PickSeparator(text, seps)
    IN  WalkSplits(SplitTextWithRegex(text, pick.separator), 1, <<>>, <<>>,
                   pick.separator, pick.new_separators, cs, co)

\* the number of _split_text frames on the stack at the deepest point of
\* _split_text(text, separators): the call itself and, below it, the deepest of
\* the calls it makes for the pieces that are not shorter than chunk_size
RECURSIVE SplitDepth(_, _, _)
SplitDepth(text, seps, cs) ==
    LET pick == PickSeparator(text, seps)
        splits == SplitTextWithRegex(text, pick.separator)
        below == IF pick.new_separators = <<>> THEN {}
                 ELSE {SplitDepth(splits[k], pick.new_separators, cs) :
                          k \in {j \in 1..Len(splits) : Len(splits[j]) >= cs}}
    IN  1 + (IF below = {} THEN 0 ELSE CHOOSE d \in below : \A e \in below : e <= d)

\* splitter.split_text(text)
SplitText(sp, text) == SplitTextRec(text, sp.separators, sp.chunk_size, sp.chunk_overlap)

(***************************************************************************)
(* The chunk factory: identifiers and metadata                             *)
(***************************************************************************)

\* the letters of [A-Za-z] that the inputs and the literals of the code are made of
AsciiLetters == {"a", "b", "D", "N", "F", "u", "n", "k", "o", "w"}

\* "\\u00e9" is e with acute accent, a letter outside ASCII
Letters == AsciiLetters \cup {"\\u00e9"}

\* "\\u0663" is ARABIC-INDIC DIGIT THREE, a decimal digit outside ASCII
NonAsciiDigits == {"\\u0663"}

Digits == <<"0", "1", "2", "3", "4", "5", "6", "7", "8", "9">>

\* the regex class \w of a str pattern: Unicode letters and digits, and '_'
IsWordChar(c) ==
    c \in Letters \/ c \in NonAsciiDigits \/ c = "_" \/ \E i \in 1..10 : Digits[i] = c

\* str(n) for n >= 0
RECURSIVE IntToStr(_)
IntToStr(n) ==
    IF n < 10 THEN <<Digits[n + 1]>> ELSE IntToStr(n \div 10) \o <<Digits[(n % 10) + 1]>>

\* re.sub(r'_+', '_', s)
CollapseUnderscores(s) ==
    Kept([i \in 1..Len(s) |-> IF s[i] = "_" /\ i > 1 /\ s[i - 1] = "_" THEN DROP ELSE s[i]])

\* s.strip('_')
StripUnderscores(s) ==
    IF \A i \in 1..Len(s) : s[i] = "_"
    THEN <<>>
    ELSE LET first == CHOOSE i \in 1..Len(s) :
                          s[i] # "_" /\ \A j \in 1..(i - 1) : s[j] = "_"
             last  == CHOOSE i \in 1..Len(s) :
                          s[i] # "_" /\ \A j \in (i + 1)..Len(s) : s[j] = "_"
         IN  SubSeq(s, first, last)

Unknown == <<"u", "n", "k", "n", "o", "w", "n">>

SanitizeIdComponent(component) ==
    IF component = <<>> THEN Unknown
    ELSE LET replaced == [i \in 1..Len(component) |->
                            IF IsWordChar(component[i]) \/ component[i] = "-"
                            THEN component[i] ELSE "_"]
             sanitized == StripUnderscores(CollapseUnderscores(replaced))
         IN  IF sanitized # <<>> THEN sanitized ELSE Unknown

\* len(content.split()): the maximal runs of non-whitespace characters
WordCount(s) ==
    Cardinality({i \in 1..Len(s) : ~IsSpace(s[i]) /\ (i = 1 \/ IsSpace(s[i - 1]))})

\* the lengths of the words of content.split()
WordChars(s) == Cardinality({i \in 1..Len(s) : ~IsSpace(s[i])})

SentenceEnd == {".", "!", "?"}

\* len(re.findall(r'[.!?]+(?:\s|$)', text)): the runs of sentence punctuation that
\* whitespace or the end of the text follows
CountSentences(s) ==
    Cardinality({i \in 1..Len(s) :
        s[i] \in SentenceEnd /\ (i = Len(s) \/ IsSpace(s[i + 1]))})

\* the parts of text.split('\n\n') that are not blank
CountParagraphs(s) ==
    IF s = <<>> THEN 0
    ELSE Len(SelectSeq(SplitOn(s, <<"\n", "\n">>), LAMBDA p : Strip(p) # <<>>))

\* analyze_semantic_boundaries; the empty dict is the record of zeros marked empty
AnalyzeSemanticBoundaries(s) ==
    [empty |-> s = <<>>,
     paragraphs |-> Count(s, <<"\n", "\n">>),
     sentences |-> Count(s, <<".", " ">>) + Count(s, <<"!", " ">>) + Count(s, <<"?", " ">>),
     lines |-> Count(s, <<"\n">>),
     clauses |-> Count(s, <<";", " ">>) + Count(s, <<":", " ">>),
     phrases |-> Count(s, <<",", " ">>),
     words |-> WordCount(s),
     characters |-> Len(s)]

Punctuation == {".", ",", ";", ":", "!", "?", "(", ")", "-", "[", "]", "{", "}"}

\* the five factors of _calculate_quality_score added up, in hundredths
ScoreFactors(cfg, s) ==
    LET length == Len(s)
        f1 == IF cfg.min_chunk_size <= length /\ length <= cfg.max_chunk_size
              THEN (IF 10 * length >= 7 * cfg.chunk_size THEN 30 ELSE 20)
              ELSE IF length < cfg.min_chunk_size THEN 10 ELSE 15
        endings == \E i \in 1..length : s[i] \in SentenceEnd
        f2 == IF endings
              THEN (IF Strip(s)[Len(Strip(s))] \in SentenceEnd THEN 25 ELSE 15)
              ELSE 5
        \* 3 <= sum(len(word)) / len(words) <= 7
        f3 == IF WordCount(s) = 0 THEN 0
              ELSE IF 3 * WordCount(s) <= WordChars(s) /\ WordChars(s) <= 7 * WordCount(s)
              THEN 20 ELSE 10
        paragraphs == Count(s, <<"\n", "\n">>)
        f4 == IF paragraphs = 0 /\ length < cfg.chunk_size THEN 15
              ELSE IF paragraphs > 0 THEN 10 ELSE 5
        f5 == IF \E i \in 1..length : s[i] \in Punctuation THEN 10 ELSE 5
    IN  f1 + f2 + f3 + f4 + f5

\* CalculateQualityScore without the early return for blank content
CalculateQualityScore_BlankScored(cfg, s) ==
    IF ScoreFactors(cfg, s) > 100 THEN 100 ELSE ScoreFactors(cfg, s)

\* _calculate_quality_score, in hundredths: 0.0 for blank content, otherwise
\* min(score, 1.0)
CalculateQualityScore(cfg, s) ==
    IF s = <<>> \/ Strip(s) = <<>> THEN 0
    ELSE IF ScoreFactors(cfg, s) > 100 THEN 100 ELSE ScoreFactors(cfg, s)

\* DocumentMetadata(...) as _create_document_chunk fills it; timestamp and
\* processing_time_ms are wall-clock readings and are left out
CreateMetadata(cfg, s, chunk_index, total_chunks, warnings) ==
    [chunk_index |-> chunk_index,
     total_chunks |-> total_chunks,
     content_length |-> Len(s),
     word_count |-> IF Strip(s) # <<>> THEN WordCount(s) ELSE 0,
     sentence_count |-> CountSentences(s),
     paragraph_count |-> CountParagraphs(s),
     chunking_strategy |-> "recursive",
     semantic_boundaries |-> AnalyzeSemanticBoundaries(s),
     quality_score |-> CalculateQualityScore(cfg, s),
     error_count |-> 0,
     warnings |-> warnings]

\* ChunkId with the chunk index left out
ChunkId_NoIndex(doctype, docname, field_name, chunk_index) ==
    SanitizeIdComponent(doctype) \o <<"_">> \o SanitizeIdComponent(docname) \o <<"_">>
    \o SanitizeIdComponent(field_name)

\* f"{sanitized_doctype}_{sanitized_docname}_{sanitized_field}_{chunk_index}"
ChunkId(doctype, docname, field_name, chunk_index) ==
    SanitizeIdComponent(doctype) \o <<"_">> \o SanitizeIdComponent(docname) \o <<"_">>
    \o SanitizeIdComponent(field_name) \o <<"_">> \o IntToStr(chunk_index)

CreateDocumentChunk(cfg, c, s, chunk_index, total_chunks, warnings) ==
    [id |-> ChunkId(c.doctype, c.docname, c.field_name, chunk_index),
     doctype |-> c.doctype,
     docname |-> c.docname,
     field_name |-> c.field_name,
     content |-> s,
     metadata |-> CreateMetadata(cfg, s, chunk_index, total_chunks, warnings),
     embedding |-> "None"]

\* warnings=None becomes []
CreateSingleChunk(cfg, c, s, warnings) == <<CreateDocumentChunk(cfg, c, s, 0, 1, warnings)>>

(***************************************************************************)
(* chunk_document_field                                                    *)
(***************************************************************************)

\* stands for a content argument of None
None == <<"None">>

\* ChunksOfSpans with the skipping of blank spans forgotten
ChunksOfSpans_NoSkip(cfg, c, text_chunks, warnings) ==
    [i \in 1..Len(text_chunks) |->
        CreateDocumentChunk(cfg, c, Strip(text_chunks[i]), i - 1, Len(text_chunks), warnings)]

\* the DocumentChunk objects built from the splitter's spans: a span that is
\* blank after strip() is skipped, the others keep their position i in text_chunks
ChunksOfSpans(cfg, c, text_chunks, warnings) ==
    SelectSeq([i \in 1..Len(text_chunks) |->
                  CreateDocumentChunk(cfg, c, Strip(text_chunks[i]), i - 1,
                                      Len(text_chunks), warnings)],
              LAMBDA ch : ch.content # <<>>)

\* if not content or not content.strip()
IsBlank(content) == content = None \/ content = <<>> \/ Strip(content) = <<>>

\* TooShortToChunk with <= for <
TooShortToChunk_Inclusive(cfg, cleaned) == Len(cleaned) <= cfg.min_chunk_size

\* len(content) < self.config.min_chunk_size
TooShortToChunk(cfg, cleaned) == Len(cleaned) < cfg.min_chunk_size

\* what a call returns: the list, the path taken, the number of split_text calls
\* made, and whether the call ended in an exception instead of returning
Returned(chs, path, calls) ==
    [chunks |-> chs, path |-> path, split_calls |-> calls, raised |-> FALSE]

\* SplitFallback without the try/except: the exception leaves the call
SplitFallback_Propagates(cfg, c, cleaned) ==
    [chunks |-> <<>>, path |-> "fallback", split_calls |-> 1, raised |-> TRUE]

\* the except branch: the single chunk is created without the warnings
SplitFallback(cfg, c, cleaned) ==
    Returned(CreateSingleChunk(cfg, c, cleaned, <<>>), "fallback", 1)

\* c is the call: doctype, docname, field_name, content, and whether
\* splitter.split_text raises in it
ChunkDocumentField(cfg, sp, c) ==
    IF IsBlank(c.content) THEN Returned(<<>>, "empty", 0)
    ELSE
    LET he == HandleEdgeCases(c.content)
    IN  IF he.cleaned = <<>> THEN Returned(<<>>, "cleaned_empty", 0)
        ELSE IF TooShortToChunk(cfg, he.cleaned)
        THEN Returned(CreateSingleChunk(cfg, c, he.cleaned, he.warnings), "short", 0)
        ELSE IF c.splitter_raises THEN SplitFallback(cfg, c, he.cleaned)
        ELSE IF SplitText(sp, he.cleaned) = <<>> THEN Returned(<<>>, "no_chunks", 1)
        ELSE Returned(ChunksOfSpans(cfg, c, SplitText(sp, he.cleaned), he.warnings),
                      "split", 1)

(***************************************************************************)
(* validate_chunk and validate_and_repair_chunks                           *)
(***************************************************************************)

\* ValidateChunk with the min_chunk_size test left out
ValidateChunk_NoMinimum(cfg, ch) ==
    /\ Len(ch.content) <= cfg.max_chunk_size
    /\ Strip(ch.content) # <<>>
    /\ ch.doctype # <<>> /\ ch.docname # <<>> /\ ch.field_name # <<>>

\* ValidateChunk with >= for > in the test against max_chunk_size
ValidateChunk_StrictMax(cfg, ch) ==
    /\ Len(ch.content) >= cfg.min_chunk_size
    /\ Len(ch.content) < cfg.max_chunk_size
    /\ Strip(ch.content) # <<>>
    /\ ch.doctype # <<>> /\ ch.docname # <<>> /\ ch.field_name # <<>>

ValidateChunk(cfg, ch) ==
    /\ Len(ch.content) >= cfg.min_chunk_size
    /\ Len(ch.content) <= cfg.max_chunk_size
    /\ Strip(ch.content) # <<>>
    /\ ch.doctype # <<>> /\ ch.docname # <<>> /\ ch.field_name # <<>>

\* RepairedMetadata with the six fields recomputed whether or not the content changed
RepairedMetadata_AlwaysRecomputes(cfg, ch) ==
    LET he == HandleEdgeCases(ch.content)
        m0 == ch.metadata
        m1 == IF he.warnings # <<>>
              THEN [m0 EXCEPT !.warnings = @ \o he.warnings,
                              !.error_count = Len(he.warnings)]
              ELSE m0
    IN  IF he.cleaned = <<>> THEN m0
        ELSE [m1 EXCEPT !.content_length = Len(he.cleaned),
                        !.word_count = IF Strip(he.cleaned) # <<>>
                                       THEN WordCount(he.cleaned) ELSE 0,
                        !.sentence_count = CountSentences(he.cleaned),
                        !.paragraph_count = CountParagraphs(he.cleaned),
                        !.semantic_boundaries = AnalyzeSemanticBoundaries(he.cleaned),
                        !.quality_score = CalculateQualityScore(cfg, he.cleaned)]

\* The metadata object after the loop body has run for chunk ch.  The "copy"
\* DocumentChunk(..., metadata=chunk.metadata, ...) holds the very DocumentMetadata
\* instance of the input chunk (pydantic keeps a model instance passed as a field
\* value), so what the body writes through repaired_chunk.metadata is written to
\* the input chunk's metadata.
RepairedMetadata(cfg, ch) ==
    LET he == HandleEdgeCases(ch.content)
        m0 == ch.metadata
        m1 == IF he.warnings # <<>>
              THEN [m0 EXCEPT !.warnings = @ \o he.warnings,
                              !.error_count = Len(he.warnings)]
              ELSE m0
    IN  IF he.cleaned = <<>> THEN m0
        ELSE IF he.cleaned # ch.content
        THEN [m1 EXCEPT !.content_length = Len(he.cleaned),
                        !.word_count = IF Strip(he.cleaned) # <<>>
                                       THEN WordCount(he.cleaned) ELSE 0,
                        !.sentence_count = CountSentences(he.cleaned),
                        !.paragraph_count = CountParagraphs(he.cleaned),
                        !.semantic_boundaries = AnalyzeSemanticBoundaries(he.cleaned),
                        !.quality_score = CalculateQualityScore(cfg, he.cleaned)]
        ELSE m1

\* repaired_chunk as it stands when validate_chunk is asked about it
RepairedChunk(cfg, ch) ==
    [ch EXCEPT !.content = HandleEdgeCases(ch.content).cleaned,
               !.metadata = RepairedMetadata(cfg, ch)]

\* ValidateAndRepairChunks with the validate_chunk test left out
ValidateAndRepairChunks_NoValidate(cfg, chs) ==
    SelectSeq([i \in 1..Len(chs) |-> RepairedChunk(cfg, chs[i])],
              LAMBDA r : r.content # <<>>)

\* the list validate_and_repair_chunks returns
ValidateAndRepairChunks(cfg, chs) ==
    SelectSeq([i \in 1..Len(chs) |-> RepairedChunk(cfg, chs[i])],
              LAMBDA r : r.content # <<>> /\ ValidateChunk(cfg, r))

\* the caller's chunks after the call
InputsAfterRepair(cfg, chs) ==
    [i \in 1..Len(chs) |-> [chs[i] EXCEPT !.metadata = RepairedMetadata(cfg, chs[i])]]

(***************************************************************************)
(* Inputs                                                                  *)
(***************************************************************************)

\* longest content handed to chunk_document_field
MaxLen == 3

\* largest chunk_size and chunk_overlap a caller configures
MaxChunkSize == 2

\* the min_chunk_size values a caller configures
MinChunkSizes == {1, 2, 3}

\* the default of ChunkingConfig.max_chunk_size
DefaultMaxChunkSize == 2000

\* most pieces a sanitizer input is put together from
MaxPieces == 3

Alphabet == {"a", " ", "\t", ".", NUL}

Contents == UNION {[1..n -> Alphabet] : n \in 0..MaxLen}

\* the separators of test_custom_separators
TestSeparators == << <<"|">>, <<";">>, <<" ">> >>

\* separators left out, given as the empty list, given as a list
SeparatorArgs ==
    {[sepGiven |-> FALSE, separators |-> <<>>],
     [sepGiven |-> TRUE, separators |-> <<>>],
     [sepGiven |-> TRUE, separators |-> TestSeparators]}

ConfigArgs ==
    {[chunk_size |-> cs, chunk_overlap |-> co, min_chunk_size |-> mn,
      max_chunk_size |-> DefaultMaxChunkSize,
      sepGiven |-> sa.sepGiven, separators |-> sa.separators,
      preserve_sentence_boundaries |-> ps, preserve_paragraph_boundaries |-> pp] :
        cs \in 1..MaxChunkSize, co \in 0..MaxChunkSize, mn \in MinChunkSizes,
        sa \in SeparatorArgs, ps \in BOOLEAN, pp \in BOOLEAN}

\* "a", then each separator of the list followed by "a": a text in which every
\* separator of the list occurs, each one only after the ones before it
RECURSIVE Nested(_)
Nested(seps) == IF seps = <<>> THEN <<"a">> ELSE <<"a">> \o Head(seps) \o Nested(Tail(seps))

\* a text for the default separator list and one for the longest list the flags give
DeepContents ==
    {Nested(DefaultSeparators),
     Nested(DerivedSeparators([preserve_paragraph_boundaries |-> TRUE,
                               preserve_sentence_boundaries |-> TRUE]))}

\* a field named by plain words, and one whose names need sanitizing
PlainNames == [doctype |-> <<"D">>, docname |-> <<"N">>, field_name |-> <<"F">>]

OddNames == [doctype |-> <<"D", " ", "/", "a">>, docname |-> <<>>,
             field_name |-> <<"_", "F", "-", "1">>]

Calls ==
    {PlainNames @@ [content |-> c] : c \in Contents \cup {None} \cup DeepContents}
    \cup {OddNames @@ [content |-> c] : c \in DeepContents \cup {<<"a">>}}

\* most chunks in a list handed to validate_and_repair_chunks
MaxChunks == 2

\* contents of chunks a caller builds by hand, as test_validate_and_repair_chunks does
RepairContents ==
    {<<"a">>, <<"a", "b">>, <<NUL, "a">>, <<"a", "\\x01", "b">>, <<" ", "a">>,
     <<" ">>, <<NUL>>, <<"a", "b", ".">>}

PriorWarning == Warning("prior", 0, 0)

\* DocumentMetadata(chunk_index=, total_chunks=, content_length=, word_count=,
\* warnings=, error_count=): the other fields take their defaults, and -1 stands
\* for the default None of quality_score
BuiltMetadata(s, chunk_index, total_chunks, warnings) ==
    [chunk_index |-> chunk_index,
     total_chunks |-> total_chunks,
     content_length |-> Len(s),
     word_count |-> WordCount(s),
     sentence_count |-> 0,
     paragraph_count |-> 0,
     chunking_strategy |-> "recursive",
     semantic_boundaries |-> AnalyzeSemanticBoundaries(<<>>),
     quality_score |-> -1,
     error_count |-> Len(warnings),
     warnings |-> warnings]

BuiltChunk(s, k, n, warnings) ==
    [id |-> <<"c">> \o IntToStr(k),
     doctype |-> <<"D">>, docname |-> <<"N">>, field_name |-> <<"F">>,
     content |-> s,
     metadata |-> BuiltMetadata(s, k - 1, n, warnings),
     embedding |-> "None"]

BuiltLists ==
    UNION {{[k \in 1..n |-> BuiltChunk(cs[k], k, n, ws[k])] :
               cs \in [1..n -> RepairContents],
               ws \in [1..n -> {<<>>, <<PriorWarning>>}]} : n \in 0..MaxChunks}

\* the configurations the hand-built lists are repaired under
RepairConfigArgs ==
    {[chunk_size |-> 2, chunk_overlap |-> 0, min_chunk_size |-> mn,
      max_chunk_size |-> mx, sepGiven |-> FALSE, separators |-> <<>>,
      preserve_sentence_boundaries |-> TRUE, preserve_paragraph_boundaries |-> TRUE] :
        mn \in 1..2, mx \in 2..3}

\* the pieces of the sanitizer's inputs
FiveSpaces == <<" ", " ", " ", " ", " ">>

Pieces ==
    {<<"a">>, FiveSpaces, <<"a">> \o FiveSpaces, FiveSpaces \o <<"a">>,
     <<"\t">>, <<"\n">>, <<"\r">>, <<NUL>>, <<"\\x01">>, <<"\\x0b">>, <<"\\ud800">>}

\* a line of LongLine + 1 characters
LongWord == [i \in 1..(LongLine + 1) |-> "a"]

RECURSIVE Flatten(_)
Flatten(ps) == IF ps = <<>> THEN <<>> ELSE Head(ps) \o Flatten(Tail(ps))

SanitizerInputs ==
    {Flatten(ps) : ps \in UNION {[1..n -> Pieces] : n \in 0..MaxPieces}}
    \cup {LongWord, LongWord \o <<"\n", "a">>, <<" ", "\\x01">> \o LongWord}

(***************************************************************************)
(* The service: configure, construct, chunk a field, repair                *)
(***************************************************************************)

Idle == <<>>

Init ==
    /\ pc = "start"
    /\ args = Idle /\ config = Idle /\ splitter = Idle /\ call = Idle
    /\ chunks = <<>> /\ outcome = Idle /\ repaired = <<>>
    /\ sanIn = <<>> /\ san1 = Idle /\ san2 = Idle /\ ret = Idle
    /\ now = 0 /\ jobs = <<>> /\ proc = <<>> /\ resp = Idle /\ cancelled = {}

\* config = ChunkingConfig(**a)
NewConfig(a) ==
    /\ pc = "start"
    /\ args' = a
    /\ config' = ChunkingConfig(a)
    /\ pc' = "configured"
    /\ UNCHANGED <<splitter, call, chunks, outcome, repaired, sanIn, san1, san2, ret, now, jobVars>>

\* ChunkingService(config): __init__ runs _setup_splitter
NewService ==
    /\ pc = "configured"
    /\ IF SplitterRejects(config)
       THEN pc' = "rejected" /\ UNCHANGED splitter
       ELSE pc' = "ready" /\ splitter' = SetupSplitter(config)
    /\ UNCHANGED <<args, config, call, chunks, outcome, repaired, sanIn, san1, san2, ret, now, jobVars>>

\* chunks = service.chunk_document_field(**c)
ChunkField(c, raises) ==
    /\ pc = "ready"
    /\ call' = c
    /\ outcome' = ChunkDocumentField(config, splitter, c @@ [splitter_raises |-> raises])
    /\ chunks' = outcome'.chunks
    /\ pc' = "chunked"
    /\ UNCHANGED <<args, config, splitter, repaired, sanIn, san1, san2, ret, now, jobVars>>

\* repaired = service.validate_and_repair_chunks(chunks)
Repair ==
    /\ pc \in {"chunked", "built"}
    /\ repaired' = ValidateAndRepairChunks(config, chunks)
    /\ chunks' = InputsAfterRepair(config, chunks)
    /\ pc' = "repaired"
    /\ UNCHANGED <<args, config, splitter, call, outcome, sanIn, san1, san2, ret, now, jobVars>>

\* the caller builds DocumentChunk objects itself
BuildChunks(chs) ==
    /\ pc = "ready"
    /\ chunks' = chs
    /\ outcome' = Returned(chs, "built", 0)
    /\ pc' = "built"
    /\ UNCHANGED <<args, config, splitter, call, repaired, sanIn, san1, san2, ret, now, jobVars>>

Next ==
    \/ \E a \in ConfigArgs : NewConfig(a)
    \/ NewService
    \/ \E c \in Calls, raises \in BOOLEAN : ChunkField(c, raises)
    \/ Repair

Spec == Init /\ [][Next]_vars

(***************************************************************************)
(* validate_and_repair_chunks on chunks the caller built                   *)
(***************************************************************************)

InitRepair ==
    /\ pc = "start"
    /\ args = Idle /\ config = Idle /\ splitter = Idle /\ call = Idle
    /\ chunks = <<>> /\ outcome = Idle /\ repaired = <<>>
    /\ sanIn = <<>> /\ san1 = Idle /\ san2 = Idle /\ ret = Idle
    /\ now = 0 /\ jobs = <<>> /\ proc = <<>> /\ resp = Idle /\ cancelled = {}

\* a configuration with the default max_chunk_size, which admits a long line
LongConfigArgs ==
    {[chunk_size |-> 2, chunk_overlap |-> 0, min_chunk_size |-> 1,
      max_chunk_size |-> DefaultMaxChunkSize, sepGiven |-> FALSE, separators |-> <<>>,
      preserve_sentence_boundaries |-> TRUE, preserve_paragraph_boundaries |-> TRUE]}

\* a caller-built list whose chunk is one line of LongLine + 1 characters
LongLists == {<<BuiltChunk(LongWord, 1, 1, <<>>)>>}

\* the positions of the chunks of chs that validate_and_repair_chunks keeps
KeptIndices(cfg, chs) ==
    SelectSeq([i \in 1..Len(chs) |-> i],
              LAMBDA i : \E cleaned \in {HandleEdgeCases(chs[i].content).cleaned} :
                             /\ cleaned # <<>>
                             /\ ValidateChunk(cfg, [chs[i] EXCEPT !.content = cleaned]))

\* repaired_chunk for every chunk of the list, as the loop body leaves it
RepairPass(cfg, chs) == [i \in 1..Len(chs) |-> RepairedChunk(cfg, chs[i])]

\* again = service.validate_and_repair_chunks(repaired): the loop runs once over
\* the list, the chunks that pass validate_chunk are returned, and the metadata
\* written on the way stays written.  The chunks of the first result hold the
\* metadata objects of the caller's chunks they were made from, so what the
\* second pass writes reaches all three.
RepairAgain ==
    /\ pc = "repaired"
    /\ \E pass \in {RepairPass(config, repaired)} :
          /\ ret' = SelectSeq(pass, LAMBDA r : r.content # <<>> /\ ValidateChunk(config, r))
          /\ repaired' = [i \in 1..Len(repaired) |->
                             [repaired[i] EXCEPT !.metadata = pass[i].metadata]]
    /\ \E kept \in {KeptIndices(config, chunks)} :
          chunks' = [i \in 1..Len(chunks) |->
                        IF \E k \in DOMAIN kept : kept[k] = i
                        THEN [chunks[i] EXCEPT !.metadata =
                                 repaired'[CHOOSE k \in DOMAIN kept : kept[k] = i].metadata]
                        ELSE chunks[i]]
    /\ pc' = "repaired_twice"
    /\ UNCHANGED <<args, config, splitter, call, outcome, sanIn, san1, san2, now, jobVars>>

NextRepair ==
    \/ \E a \in RepairConfigArgs : NewConfig(a)
    \/ NewService
    \/ \E chs \in BuiltLists : BuildChunks(chs)
    \/ Repair

SpecRepair == InitRepair /\ [][NextRepair]_vars

\* the repair applied to its own result, under the default max_chunk_size
NextRepairTwice ==
    \/ \E a \in LongConfigArgs : NewConfig(a)
    \/ NewService
    \/ \E chs \in BuiltLists \cup LongLists : BuildChunks(chs)
    \/ Repair
    \/ RepairAgain

SpecRepairTwice == InitRepair /\ [][NextRepairTwice]_vars

(***************************************************************************)
(* The sanitizer on its own, applied once and then to its own output       *)
(***************************************************************************)

InitSanitizer ==
    /\ pc = "raw"
    /\ sanIn \in SanitizerInputs
    /\ san1 = Idle /\ san2 = Idle /\ ret = Idle
    /\ now = 0 /\ jobs = <<>> /\ proc = <<>> /\ resp = Idle /\ cancelled = {}
    /\ args = Idle /\ config = Idle /\ splitter = Idle /\ call = Idle
    /\ chunks = <<>> /\ outcome = Idle /\ repaired = <<>>

Sanitize ==
    /\ pc = "raw"
    /\ san1' = HandleEdgeCases(sanIn)
    /\ pc' = "cleaned"
    /\ UNCHANGED <<args, config, splitter, call, chunks, outcome, repaired, sanIn, san2, ret, now, jobVars>>

SanitizeAgain ==
    /\ pc = "cleaned"
    /\ san2' = HandleEdgeCases(san1.cleaned)
    /\ pc' = "recleaned"
    /\ UNCHANGED <<args, config, splitter, call, chunks, outcome, repaired, sanIn, san1, ret, now, jobVars>>

NextSanitizer == Sanitize \/ SanitizeAgain

SpecSanitizer == InitSanitizer /\ [][NextSanitizer]_vars

(***************************************************************************)
(* The service's helper methods called on their own, as the unit tests do  *)
(***************************************************************************)

\* contents of the chunks handed to validate_chunk
ValidateContents == RepairContents \cup {<<>>, <<" ", " ">>}

\* the chunks handed to validate_chunk: any of doctype, docname, field_name may
\* be the empty string
ValidateChunks ==
    {[BuiltChunk(s, 1, 1, <<>>) EXCEPT !.doctype = dt, !.docname = dn, !.field_name = fn] :
        s \in ValidateContents,
        dt \in {<<"D">>, <<>>}, dn \in {<<"N">>, <<>>}, fn \in {<<"F">>, <<>>}}

\* the characters of the components handed to _sanitize_id_component
IdAlphabet == {"a", "1", "_", "-", " ", "/", "\\u00e9", "\\u0663"}

IdComponents == UNION {[1..n -> IdAlphabet] : n \in 0..MaxLen}

InitUnit ==
    /\ pc = "start"
    /\ args = Idle /\ config = Idle /\ splitter = Idle /\ call = Idle
    /\ chunks = <<>> /\ outcome = Idle /\ repaired = <<>>
    /\ sanIn = <<>> /\ san1 = Idle /\ san2 = Idle /\ ret = Idle
    /\ now = 0 /\ jobs = <<>> /\ proc = <<>> /\ resp = Idle /\ cancelled = {}

\* ret = service.validate_chunk(ch)
ValidateOne(ch) ==
    /\ pc = "ready"
    /\ chunks' = <<ch>>
    /\ ret' = ValidateChunk(config, ch)
    /\ pc' = "validated"
    /\ UNCHANGED <<args, config, splitter, call, outcome, repaired, sanIn, san1, san2, now, jobVars>>

\* ret = service._sanitize_id_component(component)
SanitizeId(component) ==
    /\ pc = "ready"
    /\ call' = [component |-> component]
    /\ ret' = SanitizeIdComponent(component)
    /\ pc' = "id_sanitized"
    /\ UNCHANGED <<args, config, splitter, chunks, outcome, repaired, sanIn, san1, san2, now, jobVars>>

\* ret = service._calculate_quality_score(content)
Score(content) ==
    /\ pc = "ready"
    /\ call' = [content |-> content]
    /\ ret' = CalculateQualityScore(config, content)
    /\ pc' = "scored"
    /\ UNCHANGED <<args, config, splitter, chunks, outcome, repaired, sanIn, san1, san2, now, jobVars>>

NextUnit ==
    \/ \E a \in RepairConfigArgs : NewConfig(a)
    \/ NewService
    \/ \E ch \in ValidateChunks : ValidateOne(ch)
    \/ \E component \in IdComponents : SanitizeId(component)
    \/ \E content \in Contents : Score(content)

SpecUnit == InitUnit /\ [][NextUnit]_vars

(***************************************************************************)
(* Properties                                                              *)
(***************************************************************************)

\* the sanitized content of the call's field
CleanedOfCall == HandleEdgeCases(call.content).cleaned

\* characters that the sanitizer removes or that strip() removes
Vanishing == {NUL} \cup ControlChars \cup Surrogates \cup WhitespaceChars

\* C1: the chunks chunk_document_field returns carry chunk_index 0, 1, ..., n-1 in
\* output order, and each carries total_chunks = n, n being the number returned.
C1_IndexContiguity ==
    pc = "chunked" =>
        \A i \in 1..Len(chunks) :
            /\ chunks[i].metadata.chunk_index = i - 1
            /\ chunks[i].metadata.total_chunks = Len(chunks)

\* C2: on every path (short content, splitter, fallback) every returned chunk has
\* content that is non-empty and equal to its own strip().
C2_NonEmptyTrimmed ==
    pc = "chunked" =>
        \A i \in 1..Len(chunks) :
            chunks[i].content # <<>> /\ Strip(chunks[i].content) = chunks[i].content

\* C2 witness: the splitter returned a span with whitespace at an end, and chunks
\* were made of the other spans.
C2_Witness ==
    /\ pc = "chunked" /\ outcome.path = "split" /\ Len(chunks) >= 2
    /\ \E i \in 1..Len(SplitText(splitter, CleanedOfCall)) :
           Strip(SplitText(splitter, CleanedOfCall)[i]) # SplitText(splitter, CleanedOfCall)[i]

\* C3: sanitizing the cleaned output of the sanitizer returns that same string and
\* no warnings.
C3_SanitizerIdempotent ==
    pc = "recleaned" => san2.cleaned = san1.cleaned /\ san2.warnings = <<>>

\* C3 as amended: when the cleaned output is non-empty and holds no run of ten or
\* more whitespace characters, sanitizing it again returns that same string, and
\* the only warning the second pass can give is the one that counts its lines of
\* more than 1000 characters.
C3_SanitizerIdempotentAmended ==
    pc = "recleaned" /\ san1.cleaned # <<>>
    /\ ~(\E i \in 1..(Len(san1.cleaned) - 9) :
            \A j \in i..(i + 9) : san1.cleaned[j] \in WhitespaceChars)
    => /\ san2.cleaned = san1.cleaned
       /\ \A k \in 1..Len(san2.warnings) :
              san2.warnings[k].msg = "Found very long lines (>1000 chars)"
       /\ Len(san2.warnings) <= 1
       /\ (san2.warnings = <<>>) <=>
              (\A ln \in 1..Len(SplitOn(san1.cleaned, <<"\n">>)) :
                   Len(SplitOn(san1.cleaned, <<"\n">>)[ln]) <= 1000)

\* C3 witness: the second pass over a cleaned output that the first pass had to
\* change and that holds a line of more than 1000 characters.
C3_Witness ==
    /\ pc = "recleaned" /\ san1.cleaned # sanIn /\ san1.cleaned # <<>>
    /\ san1.warnings # <<>> /\ san2.warnings # <<>>
    /\ san2.cleaned = san1.cleaned

\* C4: no chunk_document_field call runs under a configuration whose chunk_overlap
\* is greater than or equal to its chunk_size: such a configuration is rejected.
C4_OverlapBelowChunkSize ==
    pc = "chunked" => config.chunk_overlap < config.chunk_size

\* C5: when the caller passes no separators, the splitter is given the list derived
\* from the flags: paragraph separators iff preserve_paragraph_boundaries, sentence
\* separators iff preserve_sentence_boundaries, then the clause separators, the
\* line separator, the space and the empty string.
C5_SeparatorsDerivedFromFlags ==
    pc = "ready" /\ ~args.sepGiven =>
        splitter.separators =
            (IF args.preserve_paragraph_boundaries THEN ParagraphSeparators ELSE <<>>)
            \o (IF args.preserve_sentence_boundaries THEN SentenceSeparators ELSE <<>>)
            \o ClauseSeparators \o LineSeparators \o WordSeparators

\* C6: a non-empty separators argument is the splitter's separator list, element
\* for element, whatever the two preserve flags are.
C6_SuppliedSeparatorsVerbatim ==
    pc = "ready" /\ args.sepGiven /\ args.separators # <<>> =>
        splitter.separators = args.separators

\* C6 witness: a service built with a supplied list and a flag switched off.
C6_Witness ==
    /\ pc = "ready" /\ args.sepGiven /\ args.separators = TestSeparators
    /\ ~args.preserve_sentence_boundaries /\ args.preserve_paragraph_boundaries

\* C7: sanitized content that is non-empty and shorter than min_chunk_size comes
\* back as one chunk, index 0 of 1, holding the sanitized content, and split_text is
\* not called; sanitized content of length min_chunk_size or more goes to split_text.
C7_ShortContentSingleChunk ==
    pc = "chunked" /\ ~IsBlank(call.content) /\ CleanedOfCall # <<>> =>
        IF Len(CleanedOfCall) < config.min_chunk_size
        THEN /\ Len(chunks) = 1
             /\ chunks[1].metadata.chunk_index = 0
             /\ chunks[1].metadata.total_chunks = 1
             /\ chunks[1].content = CleanedOfCall
             /\ outcome.split_calls = 0
        ELSE outcome.split_calls = 1

\* C7 witness: a call whose content the sanitizer shortened to below min_chunk_size.
C7_Witness ==
    /\ pc = "chunked" /\ ~IsBlank(call.content)
    /\ CleanedOfCall # <<>> /\ CleanedOfCall # call.content
    /\ Len(CleanedOfCall) < config.min_chunk_size
    /\ Len(call.content) >= config.min_chunk_size
    /\ Len(chunks) = 1

\* C8: the call returns the empty list, and does not raise, when the content is
\* None, empty, whitespace-only, or made only of characters the sanitizer removes
\* and whitespace.
C8_EmptyContentNoChunks ==
    pc = "chunked"
    /\ (call.content = None \/ \A i \in 1..Len(call.content) : call.content[i] \in Vanishing)
    => chunks = <<>> /\ ~outcome.raised

\* C8 witness: a call with content made of NUL characters only.
C8_Witness ==
    /\ pc = "chunked" /\ call.content = <<NUL, NUL>>
    /\ chunks = <<>> /\ outcome.path = "cleaned_empty"

\* C9: when split_text raises, the call still returns: one chunk, index 0 of 1,
\* holding the sanitized content.
C9_SplitterFailureFallback ==
    pc = "chunked" /\ outcome.path = "fallback" =>
        /\ ~outcome.raised
        /\ Len(chunks) = 1
        /\ chunks[1].metadata.chunk_index = 0
        /\ chunks[1].metadata.total_chunks = 1
        /\ chunks[1].content = CleanedOfCall
        /\ CleanedOfCall # <<>>

\* C9 witness: split_text raised on content that the sanitizer had changed and that
\* split_text would have cut into several spans.
C9_Witness ==
    /\ pc = "chunked" /\ outcome.path = "fallback"
    /\ CleanedOfCall # call.content
    /\ Len(SplitText(splitter, CleanedOfCall)) >= 2

\* C10: validate_and_repair_chunks leaves the chunks it is given as they were:
\* content and every metadata field, warnings and error_count among them.
C10_RepairLeavesInputs ==
    pc = "repaired" => chunks = outcome.chunks

\* C11: on every chunk chunk_document_field returns and on every chunk
\* validate_and_repair_chunks returns, metadata.error_count is the number of
\* entries of metadata.warnings.
C11_ErrorCountMatchesWarnings ==
    /\ pc = "chunked" =>
           \A i \in 1..Len(chunks) :
               chunks[i].metadata.error_count = Len(chunks[i].metadata.warnings)
    /\ pc = "repaired" =>
           \A i \in 1..Len(repaired) :
               repaired[i].metadata.error_count = Len(repaired[i].metadata.warnings)

\* C12: every chunk validate_and_repair_chunks returns passes validate_chunk; the
\* returned chunks are, in input order, exactly the input chunks whose sanitized
\* content is non-empty and valid, each with the id, doctype, docname, field_name
\* and embedding of its input chunk; the output is never longer than the input.
C12_RepairKeepsValidSubsequence ==
    pc = "repaired" =>
        LET ins == outcome.chunks
            n == Len(repaired)
            cleaned(i) == HandleEdgeCases(ins[i].content).cleaned
            survives(i) ==
                /\ cleaned(i) # <<>>
                /\ ValidateChunk(config, [ins[i] EXCEPT !.content = cleaned(i)])
        IN  /\ n <= Len(ins)
            /\ \A k \in 1..n : ValidateChunk(config, repaired[k])
            /\ \E f \in [1..n -> 1..Len(ins)] :
                   /\ \A k \in 1..n : \A l \in 1..n : k < l => f[k] < f[l]
                   /\ {f[k] : k \in 1..n} = {i \in 1..Len(ins) : survives(i)}
                   /\ \A k \in 1..n :
                          /\ repaired[k].id = ins[f[k]].id
                          /\ repaired[k].doctype = ins[f[k]].doctype
                          /\ repaired[k].docname = ins[f[k]].docname
                          /\ repaired[k].field_name = ins[f[k]].field_name
                          /\ repaired[k].embedding = ins[f[k]].embedding
                          /\ repaired[k].content = cleaned(f[k])

\* C12 witness: of two chunks handed in, the first is dropped and the second comes
\* back with its content cleaned.
C12_Witness ==
    /\ pc = "repaired" /\ Len(outcome.chunks) = 2 /\ Len(repaired) = 1
    /\ repaired[1].id = outcome.chunks[2].id
    /\ repaired[1].content # outcome.chunks[2].content

\* C13: validate_chunk returns false exactly when the content is shorter than
\* min_chunk_size, or longer than max_chunk_size, or empty after trimming, or one
\* of doctype, docname, field_name is empty; in every other case it returns true.
C13_ValidateChunkExact ==
    pc = "validated" =>
        (ret = FALSE) <=>
            \/ Len(chunks[1].content) < config.min_chunk_size
            \/ Len(chunks[1].content) > config.max_chunk_size
            \/ \A i \in 1..Len(chunks[1].content) : chunks[1].content[i] \in WhitespaceChars
            \/ chunks[1].doctype = <<>>
            \/ chunks[1].docname = <<>>
            \/ chunks[1].field_name = <<>>

\* C13 witness: a chunk whose length is min_chunk_size and max_chunk_size at once
\* is found valid.
C13_Witness ==
    /\ pc = "validated" /\ ret = TRUE
    /\ Len(chunks[1].content) = config.max_chunk_size
    /\ Len(chunks[1].content) = config.min_chunk_size

\* C14: the ids of the chunks one chunk_document_field call returns are pairwise
\* distinct, and the id of the chunk with chunk_index i is the sanitized doctype,
\* docname and field_name and i, joined by '_'.
C14_ChunkIdsDistinct ==
    pc = "chunked" =>
        /\ \A i \in 1..Len(chunks) : \A j \in 1..Len(chunks) :
               i # j => chunks[i].id # chunks[j].id
        /\ \A i \in 1..Len(chunks) :
               chunks[i].id =
                   SanitizeIdComponent(call.doctype) \o <<"_">>
                   \o SanitizeIdComponent(call.docname) \o <<"_">>
                   \o SanitizeIdComponent(call.field_name) \o <<"_">>
                   \o IntToStr(chunks[i].metadata.chunk_index)

\* C14 witness: a call with names that need sanitizing returned more than ten
\* chunks, so that an index of two digits is among the ids.
C14_Witness ==
    /\ pc = "chunked" /\ call.doctype = OddNames.doctype
    /\ Len(chunks) > 10
    /\ \E i \in 1..Len(chunks) : chunks[i].metadata.chunk_index >= 10

\* C15: whatever the component, _sanitize_id_component returns a non-empty string
\* of characters of [A-Za-z0-9_-] only, without two underscores in a row and
\* without an underscore at either end, and returns 'unknown' when the component
\* holds no character of [A-Za-z0-9-].
C15_IdComponentAscii ==
    pc = "id_sanitized" =>
        LET allowed == AsciiLetters \cup {Digits[d] : d \in 1..10} \cup {"_", "-"}
        IN  /\ ret # <<>>
            /\ \A i \in 1..Len(ret) : ret[i] \in allowed
            /\ \A i \in 1..(Len(ret) - 1) : ~(ret[i] = "_" /\ ret[i + 1] = "_")
            /\ ret[1] # "_" /\ ret[Len(ret)] # "_"
            /\ (\A i \in 1..Len(call.component) :
                    call.component[i] \notin (allowed \ {"_"})) => ret = Unknown

\* C16: handle_edge_cases returns for every string, and the cleaned string it
\* returns has no whitespace at either end and holds no NUL, no control character
\* of 0x01-0x08, 0x0B, 0x0C, 0x0E-0x1F, 0x7F, and no carriage return.
C16_SanitizerOutputClean ==
    pc \in {"cleaned", "recleaned"} =>
        /\ DOMAIN san1 = {"cleaned", "warnings"}
        /\ san1.cleaned # <<>> =>
               /\ san1.cleaned[1] \notin WhitespaceChars
               /\ san1.cleaned[Len(san1.cleaned)] \notin WhitespaceChars
        /\ \A i \in 1..Len(san1.cleaned) :
               san1.cleaned[i] \notin ({NUL, "\r"} \cup ControlChars)

\* C16 witness: an input with a vertical tab and a carriage return in it came out
\* non-empty.
C16_Witness ==
    /\ pc = "cleaned" /\ san1.cleaned # <<>>
    /\ \E i \in 1..Len(sanIn) : sanIn[i] = "\\x0b"
    /\ \E i \in 1..Len(sanIn) : sanIn[i] = "\r"

\* C17: the warnings of handle_edge_cases hold the significant-content-loss
\* warning, with the length of the input and the length of the cleaned string in
\* it, exactly when the cleaned string returned is shorter than 90% of the input.
C17_LossWarningCountsTrim ==
    pc \in {"cleaned", "recleaned"} =>
        LET loss == {k \in 1..Len(san1.warnings) :
                        san1.warnings[k].msg = "Significant content loss during cleaning"}
        IN  /\ (loss # {}) <=> (10 * Len(san1.cleaned) < 9 * Len(sanIn))
            /\ \A k \in loss :
                   san1.warnings[k].a = Len(sanIn) /\ san1.warnings[k].b = Len(san1.cleaned)

\* C18: the quality score lies between 0 and 1 (here 0 and 100 hundredths), and is
\* 0 exactly when the content is empty or whitespace only.
C18_QualityScoreRange ==
    pc = "scored" =>
        /\ 0 <= ret /\ ret <= 100
        /\ (ret = 0) <=> (\A i \in 1..Len(call.content) : call.content[i] \in WhitespaceChars)

\* C18 witness: a content of whitespace only, as long as chunks are allowed to be,
\* was scored 0.
C18_Witness ==
    /\ pc = "scored" /\ ret = 0
    /\ Len(call.content) >= config.min_chunk_size
    /\ call.content # <<>>

C20_SplitDepthAtMost12 ==
    pc = "chunked" /\ outcome.path \in {"split", "no_chunks"} =>
        SplitDepth(CleanedOfCall, splitter.separators, splitter.chunk_size) <= 12

\* C20 as amended: split_text returns, and its recursion is never deeper than the
\* separator list is long: at most 11 calls under the default list, at most 17
\* under a list derived from the flags.
C20_SplitDepthAtMostListLength ==
    pc = "chunked" /\ outcome.path \in {"split", "no_chunks"} =>
        LET depth == SplitDepth(CleanedOfCall, splitter.separators, splitter.chunk_size)
        IN  /\ depth <= Len(splitter.separators)
            /\ ~args.sepGiven => depth <= 11
            /\ args.sepGiven /\ args.separators = <<>> => depth <= 17

\* C20 witness: a call under the list derived from both flags went 17 calls deep.
C20_Witness ==
    /\ pc = "chunked" /\ outcome.path = "split"
    /\ args.sepGiven /\ args.separators = <<>>
    /\ SplitDepth(CleanedOfCall, splitter.separators, splitter.chunk_size) = 17

(***************************************************************************)
(* chunk_document_fields: several fields of one document                   *)
(***************************************************************************)

\* field_data is a dict: here the sequence of its items in insertion order.
\* "if content:" skips the empty string (and None)
RECURSIVE ChunkDocumentFields(_, _, _, _, _, _)
ChunkDocumentFields(cfg, sp, doctype, docname, field_data, raises) ==
    IF field_data = <<>> THEN <<>>
    ELSE LET item == Head(field_data)
             field_chunks ==
                 IF item.content = <<>> \/ item.content = None THEN <<>>
                 ELSE ChunkDocumentField(cfg, sp,
                          [doctype |-> doctype, docname |-> docname,
                           field_name |-> item.field_name, content |-> item.content,
                           splitter_raises |-> raises]).chunks
         IN  field_chunks
             \o ChunkDocumentFields(cfg, sp, doctype, docname, Tail(field_data), raises)

MaxFields == 3

\* field names as in test_chunk_multiple_fields, and two that differ only in
\* a character that ids do not keep
FieldNames == {<<"F">>, <<"a", " ", "b">>, <<"a", "_", "b">>}

\* an empty field, a whitespace field, a short field and two fields that split
FieldContents ==
    {<<>>, <<" ", " ">>, <<"a">>, <<"a", "\t", "a">>, <<".", " ", "\t", "a">>}

\* dicts of at most MaxFields items: the keys are distinct
FieldMaps ==
    {fd \in UNION {[1..n -> [field_name : FieldNames, content : FieldContents]] :
                      n \in 0..MaxFields} :
        \A i \in DOMAIN fd, j \in DOMAIN fd : i # j => fd[i].field_name # fd[j].field_name}

FieldConfigArgs ==
    {[chunk_size |-> cs, chunk_overlap |-> 0, min_chunk_size |-> mn,
      max_chunk_size |-> DefaultMaxChunkSize, sepGiven |-> FALSE, separators |-> <<>>,
      preserve_sentence_boundaries |-> TRUE, preserve_paragraph_boundaries |-> TRUE] :
        cs \in 1..MaxChunkSize, mn \in 1..2}

\* chunks = service.chunk_document_fields("D", "N", field_data)
ChunkFields(fd, raises) ==
    /\ pc = "ready"
    /\ call' = [doctype |-> <<"D">>, docname |-> <<"N">>, field_data |-> fd,
                splitter_raises |-> raises]
    /\ chunks' = ChunkDocumentFields(config, splitter, <<"D">>, <<"N">>, fd, raises)
    /\ pc' = "fields_chunked"
    /\ UNCHANGED <<args, config, splitter, outcome, repaired, sanIn, san1, san2, ret, now, jobVars>>

NextFields ==
    \/ \E a \in FieldConfigArgs : NewConfig(a)
    \/ NewService
    \/ \E fd \in FieldMaps, raises \in BOOLEAN : ChunkFields(fd, raises)

SpecFields == Init /\ [][NextFields]_vars

\* what chunk_document_field returns for one item of the last field map
FieldResult(item) ==
    ChunkDocumentField(config, splitter,
        [doctype |-> call.doctype, docname |-> call.docname,
         field_name |-> item.field_name, content |-> item.content,
         splitter_raises |-> call.splitter_raises]).chunks

RECURSIVE ConcatNonEmptyFields(_)
ConcatNonEmptyFields(fd) ==
    IF fd = <<>> THEN <<>>
    ELSE (IF Head(fd).content = <<>> THEN <<>> ELSE FieldResult(Head(fd)))
         \o ConcatNonEmptyFields(Tail(fd))

\* C21: chunk_document_fields returns the concatenation, in the field map's
\* insertion order, of what chunk_document_field returns for each field that
\* is not the empty string; a whitespace-only field contributes no chunk; and
\* the chunks of each field start again at chunk_index 0.
C21_FieldsConcatenatedFromZero ==
    pc = "fields_chunked" =>
        /\ chunks = ConcatNonEmptyFields(call.field_data)
        /\ \A i \in DOMAIN call.field_data :
              LET item == call.field_data[i]
              IN  /\ IsBlank(item.content) => FieldResult(item) = <<>>
                  /\ FieldResult(item) # <<>> =>
                         FieldResult(item)[1].metadata.chunk_index = 0

\* C27: in the output of one chunk_document_fields call, two chunks that come
\* from different field names never have the same id.
C27_FieldIdsDistinct ==
    pc = "fields_chunked" =>
        \A i \in DOMAIN chunks, j \in DOMAIN chunks :
            chunks[i].field_name # chunks[j].field_name => chunks[i].id # chunks[j].id

(***************************************************************************)
(* chunk_document_field called twice with the same arguments               *)
(***************************************************************************)

MaxTime == 2

\* the two clock readings that differ at most by one millisecond of work
ElapsedMs == {0, 1}

\* the wall clock moves between any two steps
Tick ==
    /\ now < MaxTime
    /\ now' = now + 1
    /\ UNCHANGED <<pc, args, config, splitter, call, chunks, outcome, repaired,
                   sanIn, san1, san2, ret, jobVars>>

\* Stamped with the clock reading also written into the id
Stamped_ClockInId(chs, t, ms) ==
    [i \in DOMAIN chs |->
        [chs[i] EXCEPT !.id = @ \o <<"_">> \o IntToStr(t),
                       !.metadata = @ @@ [timestamp |-> t, processing_time_ms |-> ms]]]

\* timestamp=datetime.utcnow() and processing_time_ms=(time.time() - start_time) * 1000
\* of _create_document_chunk: the clock readings of the call
Stamped(chs, t, ms) ==
    [i \in DOMAIN chs |->
        [chs[i] EXCEPT !.metadata = @ @@ [timestamp |-> t, processing_time_ms |-> ms]]]

\* chunks = service.chunk_document_field(**c), with the clock readings
ChunkFieldAt(c, raises, ms) ==
    /\ pc = "ready"
    /\ call' = c @@ [splitter_raises |-> raises]
    /\ outcome' = ChunkDocumentField(config, splitter, call')
    /\ chunks' = Stamped(outcome'.chunks, now, ms)
    /\ pc' = "chunked_once"
    /\ UNCHANGED <<args, config, splitter, repaired, sanIn, san1, san2, ret, now, jobVars>>

\* again = service.chunk_document_field(**c): the same service, the same arguments
ChunkFieldAgain(ms) ==
    /\ pc = "chunked_once"
    /\ ret' = Stamped(ChunkDocumentField(config, splitter, call).chunks, now, ms)
    /\ pc' = "chunked_twice"
    /\ UNCHANGED <<args, config, splitter, call, chunks, outcome, repaired,
                   sanIn, san1, san2, now, jobVars>>

NextTwice ==
    \/ \E a \in FieldConfigArgs : NewConfig(a)
    \/ NewService
    \/ \E c \in Calls, raises \in BOOLEAN, ms \in ElapsedMs : ChunkFieldAt(c, raises, ms)
    \/ Tick
    \/ \E ms \in ElapsedMs : ChunkFieldAgain(ms)

SpecTwice == Init /\ [][NextTwice]_vars

C26_WarningsOnEveryPath ==
    pc = "chunked" =>
        \A i \in DOMAIN chunks :
            chunks[i].metadata.warnings = HandleEdgeCases(call.content).warnings

\* C29: a chunk that chunk_document_field produces with content shorter than
\* min_chunk_size fails validate_chunk and is dropped by
\* validate_and_repair_chunks; when the sanitized content is shorter than
\* min_chunk_size, validate_and_repair_chunks of the result is the empty list.
C29_ShortChunksDropped ==
    /\ pc = "chunked" =>
          \A i \in DOMAIN chunks :
              Len(chunks[i].content) < config.min_chunk_size =>
                  /\ ~ValidateChunk(config, chunks[i])
                  /\ ValidateAndRepairChunks(config, <<chunks[i]>>) = <<>>
    /\ (pc = "repaired" /\ outcome.path # "built" /\ ~IsBlank(call.content)) =>
          (Len(HandleEdgeCases(call.content).cleaned) < config.min_chunk_size
              => repaired = <<>>)

\* the short-content path gave its single chunk, and the repair dropped it
C29_Witness ==
    /\ pc = "repaired"
    /\ outcome.path = "short"
    /\ Len(chunks) = 1
    /\ Len(chunks[1].content) < config.min_chunk_size
    /\ repaired = <<>>

\* the six fields of a metadata record that the repair may recompute
SixFields(m) ==
    <<m.content_length, m.word_count, m.sentence_count, m.paragraph_count,
      m.semantic_boundaries, m.quality_score>>

\* the six fields as _create_document_chunk's formulas give them for content s
SixFieldsOf(cfg, s) ==
    <<Len(s), IF Strip(s) # <<>> THEN WordCount(s) ELSE 0, CountSentences(s),
      CountParagraphs(s), AnalyzeSemanticBoundaries(s), CalculateQualityScore(cfg, s)>>

\* C25: for a chunk that validate_and_repair_chunks keeps, if the sanitized
\* content differs from the input content then content_length, word_count,
\* sentence_count, paragraph_count, semantic_boundaries and quality_score of
\* the returned chunk are computed from the new content; if it is equal, the
\* six fields are those of the input chunk.
C25_RecomputedOnlyOnChange ==
    (pc = "repaired" /\ outcome.path = "built") =>
        \A k \in DOMAIN repaired : \A i \in DOMAIN outcome.chunks :
            outcome.chunks[i].id = repaired[k].id =>
                IF repaired[k].content # outcome.chunks[i].content
                THEN SixFields(repaired[k].metadata) = SixFieldsOf(config, repaired[k].content)
                ELSE SixFields(repaired[k].metadata) = SixFields(outcome.chunks[i].metadata)

\* a list of two kept chunks: the first was changed by the sanitizer, the
\* second was not and keeps the defaults it was built with
C25_Witness ==
    /\ pc = "repaired" /\ outcome.path = "built"
    /\ Len(repaired) = 2 /\ Len(outcome.chunks) = 2
    /\ repaired[1].content # outcome.chunks[1].content
    /\ repaired[2].content = outcome.chunks[2].content
    /\ repaired[2].metadata.quality_score = -1
    /\ repaired[1].metadata.quality_score >= 0

\* C28: validate_and_repair_chunks applied to its own output returns the same
\* sequence of chunks: the same ids, contents, metadata.warnings and
\* error_count as the first result had when it was passed in (the second pass
\* adds no warning).
C28_RepairIdempotent ==
    [][(pc = "repaired" /\ pc' = "repaired_twice") =>
          /\ Len(ret') = Len(repaired)
          /\ \A k \in DOMAIN repaired :
                /\ ret'[k].id = repaired[k].id
                /\ ret'[k].content = repaired[k].content
                /\ ret'[k].metadata.warnings = repaired[k].metadata.warnings
                /\ ret'[k].metadata.error_count = repaired[k].metadata.error_count]_vars

(***************************************************************************)
(* Ingestion jobs: the routes that start and cancel a job, and the         *)
(* background run of process_manual_ingestion                              *)
(***************************************************************************)

\* class JobStatus(str, Enum)
QUEUED == "queued"
PROCESSING == "processing"
COMPLETED == "completed"
FAILED == "failed"

MaxJobs == 1
MaxBatches == 2
MaxUpdates == 1

\* job.errors = all_errors[-100:]
KeepErrors == 100

LastErrors(errs) ==
    IF Len(errs) <= KeepErrors THEN errs
    ELSE SubSeq(errs, Len(errs) - KeepErrors + 1, Len(errs))

\* the row start_manual_ingestion inserts; the column defaults fill the rest
\* (completed_at is a clock reading, and -1 while it is NULL)
NewJob ==
    [status |-> QUEUED, errors |-> <<>>, completed_at |-> -1,
     processed |-> 0, updated |-> 0, failed |-> 0]

\* errors is a plain JSON column: a list assigned to it is written at the next
\* commit with what it holds then, but an append to the list that was loaded
\* from the row is not tracked and is not written
AppendError(errors, msg) == IF errors = <<>> THEN <<msg>> ELSE errors

\* CancelIngestionJob that cancels whatever the status of the job is
CancelIngestionJob_AnyStatus(rows, job_id, t) ==
    IF job_id \notin DOMAIN rows THEN [jobs |-> rows, code |-> 404]
    ELSE [jobs |-> [rows EXCEPT ![job_id] =
                       [@ EXCEPT !.status = FAILED,
                                 !.errors = AppendError(@, "Job cancelled by user"),
                                 !.completed_at = t]],
          code |-> 200]

\* cancel_ingestion_job: the table after the request, and the HTTP status
CancelIngestionJob(rows, job_id, t) ==
    IF job_id \notin DOMAIN rows THEN [jobs |-> rows, code |-> 404]
    ELSE IF rows[job_id].status \notin {QUEUED, PROCESSING}
    THEN [jobs |-> rows, code |-> 400]
    ELSE [jobs |-> [rows EXCEPT ![job_id] =
                       [@ EXCEPT !.status = FAILED,
                                 !.errors = AppendError(@, "Job cancelled by user"),
                                 !.completed_at = t]],
          code |-> 200]

\* What one run meets: the doctype's configuration, the batches the document
\* generator yields (updates: documents that are sent on, each an await;
\* failed: documents the fetcher could not read), where a fatal error strikes
\* (fetcher at k: the fetcher raises before batch k, k = 0 being
\* validate_doctype_fields / get_document_count; commit at k: the commit of batch
\* k raises, 0 being the first commit and the last one the final commit), and
\* whether the database answers when the except branch records the failure.
Batches == UNION {[1..n -> [updates : 0..MaxUpdates, failed : 0..1]] : n \in 0..MaxBatches}

NoFatal == [kind |-> "none", at |-> 0]

Plans ==
    {[setup |-> s, batches |-> <<>>, fatal |-> NoFatal, handler_ok |-> TRUE] :
        s \in {"no_config", "disabled", "no_fields"}}
    \cup {[setup |-> "ok", batches |-> b, fatal |-> f, handler_ok |-> h] :
             b \in Batches,
             f \in {NoFatal} \cup [kind : {"fetcher", "commit"}, at : 0..(MaxBatches + 1)],
             h \in BOOLEAN}

\* the except branch: the job is read again and marked FAILED, unless that raises
\* too, which is logged and nothing else
FatalHandler(row, plan) ==
    IF plan.handler_ok
    THEN [row EXCEPT !.status = FAILED, !.errors = AppendError(@, "Fatal error")]
    ELSE row

Ended(row, p, why) == [row |-> row, p |-> [p EXCEPT !.pc = "done", !.why = why]]

\* The run from where it stands to its next await, or to its end.  k is the batch
\* in hand (0 before the first), left the documents of it still to be sent on.
RECURSIVE RunToAwait(_, _, _)
RunToAwait(row, p, t) ==
    LET plan == p.plan
        n == Len(plan.batches)
    IN  IF p.left > 0 THEN [row |-> row, p |-> [p EXCEPT !.pc = "awaiting"]]
        ELSE
        LET errs == IF p.k = 0 THEN p.all_errors
                    ELSE p.all_errors
                         \o [i \in 1..plan.batches[p.k].failed |-> "Failed to fetch"]
            failed == IF p.k = 0 THEN p.failed ELSE p.failed + plan.batches[p.k].failed
            \* job.processed = ...; job.errors = all_errors[-100:]; self.db.commit()
            committed == IF p.k = 0 THEN row
                         ELSE [row EXCEPT !.processed = p.processed,
                                          !.updated = p.updated,
                                          !.failed = failed,
                                          !.errors = LastErrors(errs)]
            q == [p EXCEPT !.all_errors = errs, !.failed = failed]
        IN  IF p.k > 0 /\ plan.fatal = [kind |-> "commit", at |-> p.k]
            THEN Ended(FatalHandler(row, plan), q, "fatal")
            ELSE IF plan.fatal = [kind |-> "fetcher", at |-> p.k + 1]
            THEN Ended(FatalHandler(committed, plan), q, "fatal")
            ELSE IF p.k + 1 > n
            THEN \* job.status = JobStatus.COMPLETED; job.completed_at = utcnow(); commit
                 IF plan.fatal.kind = "commit" /\ plan.fatal.at > n
                 THEN Ended(FatalHandler(committed, plan), q, "fatal")
                 ELSE Ended([committed EXCEPT !.status = COMPLETED, !.completed_at = t],
                            q, "completed")
            ELSE RunToAwait(committed,
                            [q EXCEPT !.k = p.k + 1, !.left = plan.batches[p.k + 1].updates],
                            t)

\* the failure of a doctype that cannot be ingested
RejectDoctype(row, msg) == [row EXCEPT !.status = FAILED, !.errors = <<msg>>]

\* process_manual_ingestion from its start to its first await, or to its end
BeginRun(row, plan, t) ==
    LET p == [pc |-> "scheduled", plan |-> plan, k |-> 0, left |-> 0, all_errors |-> <<>>,
              processed |-> 0, updated |-> 0, failed |-> 0, why |-> "running"]
        \* job.status = JobStatus.PROCESSING; self.db.commit()
        processing == [row EXCEPT !.status = PROCESSING]
    IN  IF plan.fatal = [kind |-> "commit", at |-> 0]
        THEN Ended(FatalHandler(row, plan), p, "fatal")
        ELSE IF plan.setup = "no_config"
        THEN Ended(RejectDoctype(processing, "No configuration found"), p, "no_config")
        ELSE IF plan.setup = "disabled"
        THEN Ended(RejectDoctype(processing, "Doctype is disabled"), p, "disabled")
        ELSE IF plan.fatal = [kind |-> "fetcher", at |-> 0]
        THEN Ended(FatalHandler(processing, plan), p, "fatal")
        ELSE IF plan.setup = "no_fields"
        THEN Ended(RejectDoctype(processing, "No valid fields found"), p, "no_fields")
        ELSE RunToAwait(processing, p, t)

\* POST /ingestion/manual: the job row is committed and the run is handed to the
\* background tasks; when the commit raises, the answer is 500 and nothing is kept
StartManualIngestion(ok) ==
    /\ Len(jobs) < MaxJobs
    /\ IF ok
       THEN /\ jobs' = Append(jobs, NewJob)
            /\ proc' = Append(proc, [pc |-> "scheduled"])
            /\ resp' = [route |-> "start", job_id |-> Len(jobs) + 1, code |-> 200]
       ELSE /\ resp' = [route |-> "start", job_id |-> 0, code |-> 500]
            /\ UNCHANGED <<jobs, proc>>
    /\ UNCHANGED <<pc, args, config, splitter, call, chunks, outcome, repaired,
                   sanIn, san1, san2, ret, now, cancelled>>

\* the background task starts
Begin(j, plan) ==
    /\ j \in DOMAIN proc
    /\ proc[j].pc = "scheduled"
    /\ LET r == BeginRun(jobs[j], plan, now)
       IN  /\ jobs' = [jobs EXCEPT ![j] = r.row]
           /\ proc' = [proc EXCEPT ![j] = r.p]
    /\ UNCHANGED <<pc, args, config, splitter, call, chunks, outcome, repaired,
                   sanIn, san1, san2, ret, now, resp, cancelled>>

\* await self._process_document_for_embedding(...) returns (ok) or raises, which
\* the loop catches; the run goes on to its next await or to its end
Resume(j, ok) ==
    /\ j \in DOMAIN proc
    /\ proc[j].pc = "awaiting"
    /\ LET p == proc[j]
           q == IF ok
                THEN [p EXCEPT !.left = @ - 1, !.processed = @ + 1, !.updated = @ + 1]
                ELSE [p EXCEPT !.left = @ - 1, !.failed = @ + 1,
                               !.all_errors = Append(@, "Failed to process")]
           r == RunToAwait(jobs[j], q, now)
       IN  /\ jobs' = [jobs EXCEPT ![j] = r.row]
           /\ proc' = [proc EXCEPT ![j] = r.p]
    /\ UNCHANGED <<pc, args, config, splitter, call, chunks, outcome, repaired,
                   sanIn, san1, san2, ret, now, resp, cancelled>>

\* POST /ingestion/jobs/{job_id}/cancel
Cancel(job_id) ==
    /\ LET r == CancelIngestionJob(jobs, job_id, now)
       IN  /\ jobs' = r.jobs
           /\ resp' = [route |-> "cancel", job_id |-> job_id, code |-> r.code]
           /\ cancelled' = IF r.code = 200 THEN cancelled \cup {job_id} ELSE cancelled
    /\ UNCHANGED <<pc, args, config, splitter, call, chunks, outcome, repaired,
                   sanIn, san1, san2, ret, now, proc>>

\* the job ids of the requests: those of the jobs, and one that no job has
RequestIds == 1..(MaxJobs + 1)

NextJobs ==
    \/ \E ok \in BOOLEAN : StartManualIngestion(ok)
    \/ \E j \in 1..MaxJobs, plan \in Plans : Begin(j, plan)
    \/ \E j \in 1..MaxJobs, ok \in BOOLEAN : Resume(j, ok)
    \/ \E job_id \in RequestIds : Cancel(job_id)
    \/ Tick

SpecJobs == Init /\ [][NextJobs]_vars

\* the event loop runs a background task that is ready: the scheduled run
\* starts, and an await on asyncio.sleep returns
SpecJobsFair ==
    /\ SpecJobs
    /\ WF_vars(\E j \in 1..MaxJobs, plan \in Plans : Begin(j, plan))
    /\ WF_vars(\E j \in 1..MaxJobs, ok \in BOOLEAN : Resume(j, ok))

\* C23: once cancel_ingestion_job has succeeded for a job, the job's status is
\* FAILED in every later state, whatever the background run of the job does.
C23_CancelledStaysFailed ==
    \A j \in cancelled : jobs[j].status = FAILED

\* C24: a cancel request for a job whose status is COMPLETED or FAILED is
\* answered 400 and leaves the job's row as it was; a cancel request for an id
\* no job has is answered 404 and no row is created or changed.
C24_RejectedCancelChangesNothing ==
    [][\A job_id \in RequestIds :
          Cancel(job_id) =>
              /\ job_id \notin DOMAIN jobs => (resp'.code = 404 /\ jobs' = jobs)
              /\ (job_id \in DOMAIN jobs /\ jobs[job_id].status \in {COMPLETED, FAILED})
                     => (resp'.code = 400 /\ jobs' = jobs)]_vars

\* a cancel request for a job that its run has completed was answered 400
C24_Witness ==
    /\ resp # Idle
    /\ resp.route = "cancel" /\ resp.code = 400
    /\ jobs[resp.job_id].status = COMPLETED
    /\ jobs[resp.job_id].completed_at < now
    /\ proc[resp.job_id].pc = "done"

\* C30: every run of process_manual_ingestion for an existing job with a finite
\* document generator ends, and when it has ended the job's status is FAILED if
\* the doctype had no configuration, was disabled, had no valid field or a fatal
\* error occurred, and COMPLETED otherwise; it is never left PROCESSING.
C30_RunEndsCompletedOrFailed ==
    \A j \in 1..MaxJobs :
        /\ (j \in DOMAIN proc) ~> (j \in DOMAIN proc /\ proc[j].pc = "done")
        /\ []((j \in DOMAIN proc /\ proc[j].pc = "done") =>
                 jobs[j].status =
                     IF proc[j].why \in {"no_config", "disabled", "no_fields", "fatal"}
                     THEN FAILED ELSE COMPLETED)

====
